---------------------------- MODULE Spec2Model ----------------------------
(***************************************************************************)
(* Model of SnapScript OCR (convert-img-to-word):                          *)
(*   - services/docxService.ts  (src/unnamed/part_000, lines 1-220):       *)
(*       cropImage and generateAndDownloadDocx                             *)
(*   - App.tsx: the file list, processImages and the list handlers         *)
(* Strings are sequences of one-character strings, so that the regular     *)
(* expression split, parseInt and the line split are computed, not assumed.*)
(***************************************************************************)
EXTENDS Integers, Sequences, FiniteSets, TLC

(***************************************************************************)
(* Bounds of the model                                                     *)
(***************************************************************************)
\* longest annotated text, in fragments, given to the parser alone
MaxFragments == 6
\* longest annotated text, in pieces, of a single-file document
MaxPieces == 5
\* most files handed to generateAndDownloadDocx in the many-file runs
MaxFiles == 3
\* most files uploaded in one session of the App
MaxUploads == 3
\* most processImages calls running at once that the model follows
MaxProcs == 2

\* removals, moves and clear-alls by the user that are followed
MaxEdits == 2

(***************************************************************************)
(* Characters and strings                                                  *)
(***************************************************************************)
NL == "\n"

DigitChars == <<"0", "1", "2", "3", "4", "5", "6", "7", "8", "9">>

IsDigit(c) == \E k \in 1..10 : DigitChars[k] = c

DigitValue(c) == (CHOOSE k \in 1..10 : DigitChars[k] = c) - 1

\* s.substring(from - 1, to - 1) in 1-based positions: characters from..to-1
Substring(s, from, to) == SubSeq(s, from, to - 1)

RECURSIVE Concat(_)
Concat(ss) == IF ss = <<>> THEN <<>> ELSE Head(ss) \o Concat(Tail(ss))

\* decimal rendering of a natural number, as the annotator writes coordinates
RECURSIVE Dec(_)
Dec(n) == IF n < 10 THEN <<DigitChars[n + 1]>>
          ELSE Dec(n \div 10) \o <<DigitChars[(n % 10) + 1]>>

\* parseInt on a string of decimal digits
RECURSIVE parseInt(_)
parseInt(ds) == IF ds = <<>> THEN 0
                ELSE 10 * parseInt(SubSeq(ds, 1, Len(ds) - 1)) + DigitValue(ds[Len(ds)])

(***************************************************************************)
(* cropRegex = /(\[\[CROP:\d+,\d+,\d+,\d+\]\])/g                           *)
(***************************************************************************)
TagOpen == <<"[", "[", "C", "R", "O", "P", ":">>

TagClose == <<"]", "]">>

\* does the literal lit occur in s at position p
LitAt(s, p, lit) == /\ p + Len(lit) - 1 <= Len(s)
                    /\ \A k \in 1..Len(lit) : s[p + k - 1] = lit[k]

\* \d+ is greedy: the first position at or after p that holds no digit
RECURSIVE DigitsEnd(_, _)
DigitsEnd(s, p) == IF p <= Len(s) /\ IsDigit(s[p]) THEN DigitsEnd(s, p + 1) ELSE p

\* position after `\d+` followed by the literal lit, matched at p; 0 when no match
NumThen(s, p, lit) ==
    IF p = 0 THEN 0
    ELSE LET e == DigitsEnd(s, p)
         IN IF e > p /\ LitAt(s, e, lit) THEN e + Len(lit) ELSE 0

\* the regex matched at position p exactly: the position after the match, 0 when none
MatchAt(s, p) ==
    IF ~LitAt(s, p, TagOpen) THEN 0
    ELSE NumThen(s, NumThen(s, NumThen(s, NumThen(s, p + Len(TagOpen), <<",">>),
                                       <<",">>), <<",">>), TagClose)

\* the split as it would be were the regex written without its capture group
RECURSIVE SplitFromNoCapture(_, _, _)
SplitFromNoCapture(s, p, q) ==
    IF q > Len(s) THEN <<Substring(s, p, Len(s) + 1)>>
    ELSE LET e == MatchAt(s, q)
         IN IF e = 0 THEN SplitFromNoCapture(s, p, q + 1)
            ELSE <<Substring(s, p, q)>> \o SplitFromNoCapture(s, e, e)

\* String.prototype.split with a one-group regex: p is the start of the pending
\* piece, q the position the match is tried at
RECURSIVE SplitFrom(_, _, _)
SplitFrom(s, p, q) ==
    IF q > Len(s) THEN <<Substring(s, p, Len(s) + 1)>>
    ELSE LET e == MatchAt(s, q)
         IN IF e = 0 THEN SplitFrom(s, p, q + 1)
            ELSE <<Substring(s, p, q), Substring(s, q, e)>> \o SplitFrom(s, e, e)

SplitCrop(s) == SplitFrom(s, 1, 1)

\* part.match(/^\[\[CROP:(\d+),(\d+),(\d+),(\d+)\]\]$/)
IsCropTag(part) == part # <<>> /\ MatchAt(part, 1) = Len(part) + 1

\* the four capture groups of a part that IsCropTag, parsed: <<ymin, xmin, ymax, xmax>>
TagNumbers(part) ==
    LET a1 == Len(TagOpen) + 1
        e1 == DigitsEnd(part, a1)
        e2 == DigitsEnd(part, e1 + 1)
        e3 == DigitsEnd(part, e2 + 1)
        e4 == DigitsEnd(part, e3 + 1)
    IN <<parseInt(Substring(part, a1, e1)), parseInt(Substring(part, e1 + 1, e2)),
         parseInt(Substring(part, e2 + 1, e3)), parseInt(Substring(part, e3 + 1, e4))>>

\* part.split('\n')
RECURSIVE SplitLinesFrom(_, _, _)
SplitLinesFrom(s, p, q) ==
    IF q > Len(s) THEN <<Substring(s, p, Len(s) + 1)>>
    ELSE IF s[q] = NL THEN <<Substring(s, p, q)>> \o SplitLinesFrom(s, q + 1, q + 1)
    ELSE SplitLinesFrom(s, p, q + 1)

SplitLines(s) == SplitLinesFrom(s, 1, 1)

\* the parts the walk does not skip (`if (!part) continue`)
Segments(parts) == SelectSeq(parts, LAMBDA x : x # <<>>)


(***************************************************************************)
(* State                                                                   *)
(***************************************************************************)
VARIABLES
    ptext, pparts,            \* the parser alone: its input and the parts it returned
    dPc,                      \* generateAndDownloadDocx: where the call stands
    dFiles,                   \* its argument `files`
    validFiles, index,        \* the filtered list and the outer loop's index (0-based)
    parts, i,                 \* the split text of the current file and the inner index
    currentRuns, docChildren, \* the open paragraph's runs and the finished paragraphs
    download,                 \* the paragraphs of the document handed to the browser
    cPc,                      \* cropImage: where the pending call stands
    cArgs,                    \* its arguments: the file and ymin, xmin, ymax, xmax
    cRect,                    \* the pixel rectangle computed in onload
    cError,                   \* the message it rejected with
    cUrl, cRevokes,           \* is its object URL live; revokeObjectURL calls on it
    files, isProcessing,      \* App: the two state hooks
    uploads,                  \* how many files have been uploaded so far
    procs,                    \* the processImages calls that have not returned
    edits,                    \* removals, moves and clear-alls so far
    crashed                   \* a render of App has thrown: the tree is unmounted

docxVars == <<dPc, dFiles, validFiles, index, parts, i, currentRuns, docChildren,
              download>>

cropVars == <<cPc, cArgs, cRect, cError, cUrl, cRevokes>>

parseVars == <<ptext, pparts>>

appVars == <<files, isProcessing, uploads, procs, edits, crashed>>

vars == <<parseVars, docxVars, cropVars, appVars>>

(***************************************************************************)
(* types.ts: UploadedFile, and the File it holds                           *)
(***************************************************************************)
\* extractedText: null (a one-element value no string of characters equals)
null == <<"null">>

ProcessingStatus == {"IDLE", "PROCESSING", "COMPLETED", "ERROR"}

\* a File: its name and what decoding its bytes as an image gives
File(name, image) == [name |-> name, image |-> image]

\* errorMessage?: absent
NoMessage == ""

UploadedFile(id, file, status, text) ==
    [id |-> id, file |-> file, status |-> status, extractedText |-> text,
     errorMessage |-> NoMessage]

(***************************************************************************)
(* Runs and paragraphs of the docx tree                                    *)
(***************************************************************************)
\* the bytes of an image run: which file was cropped, and the pixel rectangle in
\* thousandths of a pixel
NoData == [src |-> "", x |-> 0, y |-> 0, w |-> 0, h |-> 0]

TextRun(text, style) ==
    [type |-> "text", text |-> text, style |-> style, width |-> 0, height |-> 0,
     data |-> NoData]

\* width and height in millionths of a page unit
ImageRun(data, width, height) ==
    [type |-> "image", text |-> <<>>, style |-> "png", width |-> width,
     height |-> height, data |-> data]

MissingImageRun == TextRun(<<"[MISSING IMAGE]">>, "error")

Paragraph(kind, runs) == [kind |-> kind, runs |-> runs]

TitleParagraph == Paragraph("title", <<TextRun(<<"Extracted Content">>, "title")>>)

HeaderParagraph(file) ==
    Paragraph("header", <<TextRun(<<"Source: ", file.file.name>>, "header")>>)

PageBreakParagraph == Paragraph("pagebreak", <<TextRun(<<>>, "break")>>)

\* flushParagraph: <<docChildren, currentRuns>> after the call
flushParagraph(doc, runs) ==
    IF Len(runs) > 0 THEN <<Append(doc, Paragraph("body", runs)), <<>>>>
    ELSE <<doc, runs>>

\* the loop as it would be were the flush done after the last line too
RECURSIVE ForEachLineFlushAll(_, _, _, _)
ForEachLineFlushAll(lines, k, doc, runs) ==
    IF k > Len(lines) THEN <<doc, runs>>
    ELSE LET pushed == IF lines[k] # <<>> THEN Append(runs, TextRun(lines[k], "body"))
                       ELSE runs
             after == flushParagraph(doc, pushed)
         IN ForEachLineFlushAll(lines, k + 1, after[1], after[2])

\* the loop as it would be were a line break at the end of the part not to flush
RECURSIVE ForEachLineKeepTrailing(_, _, _, _)
ForEachLineKeepTrailing(lines, k, doc, runs) ==
    IF k > Len(lines) THEN <<doc, runs>>
    ELSE LET pushed == IF lines[k] # <<>> THEN Append(runs, TextRun(lines[k], "body"))
                       ELSE runs
             trailing == k = Len(lines) - 1 /\ lines[Len(lines)] = <<>>
             after == IF k < Len(lines) /\ ~trailing THEN flushParagraph(doc, pushed)
                      ELSE <<doc, pushed>>
         IN ForEachLineKeepTrailing(lines, k + 1, after[1], after[2])

\* lines.forEach of a text part: <<docChildren, currentRuns>> after the lines from k on
RECURSIVE ForEachLine(_, _, _, _)
ForEachLine(lines, k, doc, runs) ==
    IF k > Len(lines) THEN <<doc, runs>>
    ELSE LET pushed == IF lines[k] # <<>> THEN Append(runs, TextRun(lines[k], "body"))
                       ELSE runs
             after == IF k < Len(lines) THEN flushParagraph(doc, pushed)
                      ELSE <<doc, pushed>>
         IN ForEachLine(lines, k + 1, after[1], after[2])

\* the filter as it would be without the length test
IsValidFileNotNull(f) == f.extractedText # null

\* files.filter(f => f.extractedText && f.extractedText.length > 0)
IsValidFile(f) == f.extractedText # null /\ Len(f.extractedText) > 0

ValidFiles(list) == SelectSeq(list, IsValidFile)

(***************************************************************************)
(* Page scaling                                                            *)
(***************************************************************************)
MAX_PAGE_WIDTH == 500
\* PAGE_ASPECT_RATIO = 1.414, in thousandths
PAGE_ASPECT_RATIO_MILLI == 1414
\* coordinates are 0-1000
COORD_SCALE == 1000
\* Math.max(20, ...)
MIN_DISPLAY == 20
\* one page unit, in the units widths and heights are kept in
UNIT == 1000 * 1000

Max(a, b) == IF a >= b THEN a ELSE b

\* the width as it would be without Math.max
DisplayWidthNoFloor(xmin, xmax) ==
    (xmax - xmin) * MAX_PAGE_WIDTH * (UNIT \div COORD_SCALE)

\* Math.max(20, (coordWidth / 1000) * MAX_PAGE_WIDTH)
DisplayWidth(xmin, xmax) ==
    Max(MIN_DISPLAY * UNIT, (xmax - xmin) * MAX_PAGE_WIDTH * (UNIT \div COORD_SCALE))

\* Math.max(20, (coordHeight / 1000) * (MAX_PAGE_WIDTH * PAGE_ASPECT_RATIO))
DisplayHeight(ymin, ymax) ==
    Max(MIN_DISPLAY * UNIT,
        (ymax - ymin) * MAX_PAGE_WIDTH * PAGE_ASPECT_RATIO_MILLI
            * (UNIT \div (1000 * COORD_SCALE)))

(***************************************************************************)
(* cropImage(file, ymin, xmin, ymax, xmax)                                 *)
(***************************************************************************)
NoArgs == [file |-> File("", [ok |-> FALSE, width |-> 0, height |-> 0]),
           ymin |-> 0, xmin |-> 0, ymax |-> 0, xmax |-> 0]

\* realX, realY, realW, realH of onload, in thousandths of a pixel
RealRect(a) ==
    [src |-> a.file.name,
     x |-> a.xmin * a.file.image.width,
     y |-> a.ymin * a.file.image.height,
     w |-> (a.xmax - a.xmin) * a.file.image.width,
     h |-> (a.ymax - a.ymin) * a.file.image.height]

\* the test as it would be with < for <=
InvalidDimensionsStrict(r) == r.w < 0 \/ r.h < 0

\* `realW <= 0 || realH <= 0`
InvalidDimensions(r) == r.w <= 0 \/ r.h <= 0

\* canvas.width = realW: the attribute keeps the integer part
CanvasSize(real) == real \div COORD_SCALE

\* the promise executor: new Image(), createObjectURL, img.src = url
CropCall(file, ymin, xmin, ymax, xmax) ==
    /\ cPc' = "loading"
    /\ cArgs' = [file |-> file, ymin |-> ymin, xmin |-> xmin, ymax |-> ymax,
                 xmax |-> xmax]
    /\ cRect' = NoData
    /\ cError' = ""
    /\ cUrl' = TRUE
    /\ cRevokes' = 0

revokeObjectURL == /\ cUrl' = FALSE
                   /\ cRevokes' = cRevokes + 1

\* the image fails to decode: the error event is fired
ErrorEvent == cPc = "loading" /\ ~cArgs.file.image.ok

\* the image decodes: the load event is fired
LoadEvent == cPc = "loading" /\ cArgs.file.image.ok

\* img.onerror
ImgOnError ==
    /\ ErrorEvent
    /\ revokeObjectURL
    /\ cPc' = "rejected"
    /\ cError' = "Failed to load image for cropping"
    /\ UNCHANGED <<cArgs, cRect, parseVars, docxVars, appVars>>

\* img.onload, `if (realW <= 0 || realH <= 0)`
ImgOnLoadInvalid ==
    /\ LoadEvent
    /\ LET r == RealRect(cArgs)
       IN /\ InvalidDimensions(r)
          /\ cRect' = r
    /\ cPc' = "rejected"
    /\ cError' = "Invalid crop dimensions"
    /\ UNCHANGED <<cArgs, cUrl, cRevokes, parseVars, docxVars, appVars>>

\* img.onload, `if (!ctx)`
ImgOnLoadNoContext ==
    /\ LoadEvent
    /\ LET r == RealRect(cArgs)
       IN /\ ~InvalidDimensions(r)
          /\ cRect' = r
    /\ cPc' = "rejected"
    /\ cError' = "Could not get canvas context"
    /\ UNCHANGED <<cArgs, cUrl, cRevokes, parseVars, docxVars, appVars>>

\* img.onload, an exception inside the try block: `catch (e)`
ImgOnLoadThrows ==
    /\ LoadEvent
    /\ LET r == RealRect(cArgs)
       IN /\ ~InvalidDimensions(r)
          /\ cRect' = r
    /\ revokeObjectURL
    /\ cPc' = "rejected"
    /\ cError' = "exception"
    /\ UNCHANGED <<cArgs, parseVars, docxVars, appVars>>

\* img.onload up to canvas.toBlob(...)
ImgOnLoadDraw ==
    /\ LoadEvent
    /\ LET r == RealRect(cArgs)
       IN /\ ~InvalidDimensions(r)
          /\ cRect' = r
    /\ cPc' = "toBlob"
    /\ UNCHANGED <<cArgs, cError, cUrl, cRevokes, parseVars, docxVars, appVars>>

\* a canvas without pixels encodes to no blob
CanvasIsEmpty == CanvasSize(cRect.w) = 0 \/ CanvasSize(cRect.h) = 0

\* canvas.toBlob calls back
BlobEvent == cPc = "toBlob"

\* the reader is done
LoadEndEvent == cPc = "reading"

\* the toBlob callback, `if (!blob)`
ToBlobNull ==
    /\ BlobEvent
    /\ cPc' = "rejected"
    /\ cError' = "Crop failed"
    /\ UNCHANGED <<cArgs, cRect, cUrl, cRevokes, parseVars, docxVars, appVars>>

\* the toBlob callback with a blob: reader.readAsArrayBuffer(blob)
ToBlobRead ==
    /\ BlobEvent
    /\ ~CanvasIsEmpty
    /\ cPc' = "reading"
    /\ UNCHANGED <<cArgs, cRect, cError, cUrl, cRevokes, parseVars, docxVars, appVars>>

\* reader.onloadend
ReaderOnLoadEnd ==
    /\ LoadEndEvent
    /\ revokeObjectURL
    /\ cPc' = "resolved"
    /\ UNCHANGED <<cArgs, cRect, cError, parseVars, docxVars, appVars>>

CropSettled == cPc \in {"resolved", "rejected"}

CropStep == \/ ImgOnError
            \/ ImgOnLoadInvalid
            \/ ImgOnLoadNoContext
            \/ ImgOnLoadThrows
            \/ ImgOnLoadDraw
            \/ ToBlobNull
            \/ ToBlobRead
            \/ ReaderOnLoadEnd


(***************************************************************************)
(* generateAndDownloadDocx(files)                                          *)
(***************************************************************************)
\* where the call stands, as conditions of its loops and branches
AtEntry == dPc = "entry"
AtOuterLoop == dPc = "file"
InOuterLoop == AtOuterLoop /\ index < Len(validFiles)
AtInnerLoop == dPc = "part"
InInnerLoop == AtInnerLoop /\ i < Len(parts)
AtAwait == dPc = "await"

\* entry with no valid file: `throw new Error("No text available to download.")`
DocxNoContent ==
    /\ AtEntry
    /\ Len(ValidFiles(dFiles)) = 0
    /\ validFiles' = ValidFiles(dFiles)
    /\ dPc' = "thrown"
    /\ UNCHANGED <<dFiles, index, parts, i, currentRuns, docChildren, download,
                   parseVars, cropVars, appVars>>

\* entry: the filter, the title paragraph, `index = 0`
DocxEntry ==
    /\ AtEntry
    /\ Len(ValidFiles(dFiles)) # 0
    /\ validFiles' = ValidFiles(dFiles)
    /\ docChildren' = <<TitleParagraph>>
    /\ index' = 0
    /\ dPc' = "file"
    /\ UNCHANGED <<dFiles, parts, i, currentRuns, download, parseVars, cropVars, appVars>>

\* the head of the outer loop's body: the header paragraph and the split
DocxFileHead ==
    /\ InOuterLoop
    /\ LET file == validFiles[index + 1]
       IN /\ docChildren' = Append(docChildren, HeaderParagraph(file))
          /\ parts' = SplitCrop(file.extractedText)
    /\ currentRuns' = <<>>
    /\ i' = 0
    /\ dPc' = "part"
    /\ UNCHANGED <<dFiles, validFiles, index, download, parseVars, cropVars, appVars>>

\* `if (!part) continue`
DocxPartSkip ==
    /\ InInnerLoop
    /\ parts[i + 1] = <<>>
    /\ i' = i + 1
    /\ UNCHANGED <<dPc, dFiles, validFiles, index, parts, currentRuns, docChildren,
                   download, parseVars, cropVars, appVars>>

\* a text part: its lines become runs, each line break flushes
DocxPartText ==
    /\ InInnerLoop
    /\ parts[i + 1] # <<>>
    /\ ~IsCropTag(parts[i + 1])
    /\ LET after == ForEachLine(SplitLines(parts[i + 1]), 1, docChildren, currentRuns)
       IN /\ docChildren' = after[1]
          /\ currentRuns' = after[2]
    /\ i' = i + 1
    /\ UNCHANGED <<dPc, dFiles, validFiles, index, parts, download, parseVars,
                   cropVars, appVars>>

\* a crop tag: `await cropImage(file.file, ymin, xmin, ymax, xmax)`
DocxPartCrop ==
    /\ InInnerLoop
    /\ IsCropTag(parts[i + 1])
    /\ LET n == TagNumbers(parts[i + 1])
       IN CropCall(validFiles[index + 1].file, n[1], n[2], n[3], n[4])
    /\ dPc' = "await"
    /\ UNCHANGED <<dFiles, validFiles, index, parts, i, currentRuns, docChildren,
                   download, parseVars, appVars>>

\* the run as it would be without the catch block
CropRunNoCatch == ImageRun(cRect, DisplayWidth(cArgs.xmin, cArgs.xmax),
                           DisplayHeight(cArgs.ymin, cArgs.ymax))

\* the run pushed once the awaited crop has settled
CropRun == IF cPc = "resolved"
           THEN ImageRun(cRect, DisplayWidth(cArgs.xmin, cArgs.xmax),
                         DisplayHeight(cArgs.ymin, cArgs.ymax))
           ELSE MissingImageRun

\* after the await: the image run, or the placeholder of the catch block
DocxCropResume ==
    /\ AtAwait
    /\ CropSettled
    /\ currentRuns' = Append(currentRuns, CropRun)
    /\ i' = i + 1
    /\ dPc' = "part"
    /\ cPc' = "none"
    /\ cArgs' = NoArgs
    /\ cRect' = NoData
    /\ cError' = ""
    /\ cUrl' = FALSE
    /\ cRevokes' = 0
    /\ UNCHANGED <<dFiles, validFiles, index, parts, docChildren, download, parseVars,
                   appVars>>

\* the test as it would be with the page break after every file
NeedsPageBreakAfterEach(idx, n) == idx < n

\* `if (index < validFiles.length - 1)`
NeedsPageBreak(idx, n) == idx < n - 1

\* after the last part: the final flush, the page break, `index++`
DocxFileEnd ==
    /\ AtInnerLoop
    /\ ~InInnerLoop
    /\ LET flushed == flushParagraph(docChildren, currentRuns)
       IN /\ docChildren' = IF NeedsPageBreak(index, Len(validFiles))
                            THEN Append(flushed[1], PageBreakParagraph)
                            ELSE flushed[1]
          /\ currentRuns' = flushed[2]
    /\ index' = index + 1
    /\ dPc' = "file"
    /\ UNCHANGED <<dFiles, validFiles, parts, i, download, parseVars, cropVars, appVars>>

\* after the loop: new Document, Packer.toBlob, the download link
DocxDownload ==
    /\ AtOuterLoop
    /\ ~InOuterLoop
    /\ download' = docChildren
    /\ dPc' = "done"
    /\ UNCHANGED <<dFiles, validFiles, index, parts, i, currentRuns, docChildren,
                   parseVars, cropVars, appVars>>

DocxStep == \/ DocxNoContent
            \/ DocxEntry
            \/ DocxFileHead
            \/ DocxPartSkip
            \/ DocxPartText
            \/ DocxPartCrop
            \/ DocxCropResume
            \/ DocxFileEnd
            \/ DocxDownload

(***************************************************************************)
(* The parser alone                                                        *)
(***************************************************************************)
NotParsed == <<null>>

ParseText ==
    /\ pparts = NotParsed
    /\ ptext # null
    /\ pparts' = SplitCrop(ptext)
    /\ UNCHANGED <<ptext, docxVars, cropVars, appVars>>

(***************************************************************************)
(* Inputs                                                                  *)
(***************************************************************************)
\* [[CROP:ymin,xmin,ymax,xmax]] as the annotator writes it
MarkerText(m) ==
    TagOpen \o Dec(m[1]) \o <<",">> \o Dec(m[2]) \o <<",">> \o Dec(m[3]) \o <<",">>
            \o Dec(m[4]) \o TagClose

GoodMarker == <<100, 100, 200, 200>>
TinyMarker == <<999, 999, 1000, 1000>>
FlatMarker == <<100, 200, 200, 200>>
ReversedMarker == <<300, 100, 200, 400>>

Markers == {GoodMarker, TinyMarker, FlatMarker, ReversedMarker}

\* an undecodable file, a 1000 x 1000 image, and one 8 pixels wide
BrokenImage == [ok |-> FALSE, width |-> 0, height |-> 0]
SquareImage == [ok |-> TRUE, width |-> 1000, height |-> 1000]
NarrowImage == [ok |-> TRUE, width |-> 8, height |-> 500]

Images == {BrokenImage, SquareImage, NarrowImage}

\* all concatenations of at most n elements of the set pieces
RECURSIVE TextsUpTo(_, _)
TextsUpTo(pieces, n) ==
    IF n = 0 THEN {<<>>}
    ELSE LET shorter == TextsUpTo(pieces, n - 1)
         IN shorter \cup {p \o t : p \in pieces, t \in shorter}

\* what the parser alone is given: marker fragments, whole markers, other text
Fragments == {TagOpen, <<"7", ",">>, <<"7">>, TagClose, <<"a">>, <<NL>>,
              MarkerText(GoodMarker)}

\* what a single-file document is built from
Pieces == {<<"A">>, <<"B">>, <<NL>>, MarkerText(GoodMarker), MarkerText(FlatMarker)}

FileName(k) == <<"f1", "f2", "f3", "f4", "f5">>[k]

InputFile(k, text, image) ==
    UploadedFile(k, File(FileName(k), image),
                 IF text = null THEN "ERROR" ELSE "COMPLETED", text)

\* a single file with a long text
OneFileInputs ==
    {<<InputFile(1, t, img)>> : t \in TextsUpTo(Pieces, MaxPieces), img \in Images}

\* a single file whose text is one marker, over a grid of coordinates
Coords == {0, 100, 200, 999, 1000}

MarkerInputs ==
    {<<InputFile(1, MarkerText(<<y1, x1, y2, x2>>), img)>> :
        y1 \in Coords, x1 \in Coords, y2 \in Coords, x2 \in Coords, img \in Images}

\* several files with short texts, some of them without text
ShortTexts == {null, <<>>, <<"A">>, MarkerText(GoodMarker), MarkerText(FlatMarker)}

ManyFileInputs ==
    UNION {{[k \in 1..n |-> InputFile(k, c[k][1], c[k][2])] :
                c \in [1..n -> ShortTexts \X {BrokenImage, SquareImage}]} :
           n \in 0..MaxFiles}

\* the worked examples: "A\nB[[CROP:100,100,200,200]]C", and x.png with "Hello"
\* followed by y.png with "[[CROP:0,0,500,500]]"; and a file with a flat marker
\* inside its text, followed by a second file
ExampleText == <<"A", NL, "B">> \o MarkerText(GoodMarker) \o <<"C">>

ExampleInputs ==
    {<<InputFile(1, ExampleText, img)>> : img \in Images}
    \cup {<<InputFile(1, <<"H", "e", "l", "l", "o">>, SquareImage),
            InputFile(2, MarkerText(<<0, 0, 500, 500>>), img)>> : img \in Images}
    \cup {<<InputFile(1, <<"A">> \o MarkerText(FlatMarker) \o <<"B">>, img),
            InputFile(2, <<"C">>, SquareImage)>> : img \in Images}

(***************************************************************************)
(* App.tsx: the file list                                                  *)
(***************************************************************************)
\* what reading a slot past the end of an array gives, and an entry without a file
NoFile == File("", BrokenImage)

Undefined == [id |-> 0, file |-> NoFile, status |-> "undefined",
              extractedText |-> null, errorMessage |-> NoMessage]

\* update[index], index counted from 0
Slot(prev, idx) == IF idx < Len(prev) THEN prev[idx + 1] ELSE Undefined

\* `update = [...prev]; update[index] = entry`: writing past the end leaves holes
Assign(prev, idx, entry) ==
    LET base == IF idx < Len(prev) THEN prev
                ELSE prev \o [j \in 1..(idx + 1 - Len(prev)) |-> Undefined]
    IN [base EXCEPT ![idx + 1] = entry]

\* the three updaters of processImages
SetProcessing(prev, idx) ==
    Assign(prev, idx, [Slot(prev, idx) EXCEPT !.status = "PROCESSING"])

SetCompleted(prev, idx, text) ==
    Assign(prev, idx, [Slot(prev, idx) EXCEPT !.status = "COMPLETED",
                                              !.extractedText = text])

SetError(prev, idx, message) ==
    Assign(prev, idx, [Slot(prev, idx) EXCEPT !.status = "ERROR",
                                              !.errorMessage = message])

\* ImageCard reads item.file.type: an entry without a file makes the render throw
RenderThrows(list) == \E j \in 1..Len(list) : list[j].file = NoFile

\* setFiles: nothing is left to update once the tree is unmounted
setFiles(next) ==
    IF crashed THEN UNCHANGED <<files, crashed>>
    ELSE /\ files' = next
         /\ crashed' = RenderThrows(next)

\* pendingIndices: the entries not yet COMPLETED, each with its position
pendingIndices(list) ==
    LET items == [j \in 1..Len(list) |->
                     [file |-> list[j].file, status |-> list[j].status, index |-> j - 1]]
        kept == SelectSeq(items, LAMBDA item : item.status # "COMPLETED")
    IN [j \in 1..Len(kept) |-> [file |-> kept[j].file, index |-> kept[j].index]]

completedCount == Cardinality({j \in 1..Len(files) : files[j].status = "COMPLETED"})

hasFiles == Len(files) > 0

\* generateAndDownloadDocx works on the list it was handed and shares no state with
\* the handlers below, so its steps commute with theirs: the handlers are followed
\* while no download is running
Foreground == dPc = "idle"

\* the k-th file the user picks: every third one does not decode
DiskFile(k) == File(FileName(k), IF k % 3 = 0 THEN BrokenImage ELSE SquareImage)

\* handleFileSelect: n new files, each with a fresh id
handleFileSelect ==
    /\ Foreground
    /\ ~crashed
    /\ \E n \in 1..(MaxUploads - uploads) :
           /\ setFiles(files \o [m \in 1..n |->
                  UploadedFile(uploads + m, DiskFile(uploads + m),
                               "IDLE", null)])
           /\ uploads' = uploads + n
    /\ UNCHANGED <<isProcessing, procs, edits, parseVars, docxVars, cropVars>>

\* handleRemoveFile(id), from the card of an entry
handleRemoveFile ==
    /\ Foreground
    /\ ~crashed
    /\ edits < MaxEdits
    /\ edits' = edits + 1
    /\ \E j \in 1..Len(files) :
           setFiles(SelectSeq(files, LAMBDA f : f.id # files[j].id))
    /\ UNCHANGED <<isProcessing, uploads, procs, parseVars, docxVars, cropVars>>

\* handleClearAll
handleClearAll ==
    /\ Foreground
    /\ ~crashed
    /\ edits < MaxEdits
    /\ edits' = edits + 1
    /\ hasFiles
    /\ setFiles(<<>>)
    /\ UNCHANGED <<isProcessing, uploads, procs, parseVars, docxVars, cropVars>>

\* the updater of moveFile(index, direction)
moveFile(prev, idx, direction) ==
    IF direction = "up" /\ idx > 0
    THEN [prev EXCEPT ![idx + 1] = prev[idx], ![idx] = prev[idx + 1]]
    ELSE IF direction = "down" /\ idx < Len(prev) - 1
    THEN [prev EXCEPT ![idx + 1] = prev[idx + 2], ![idx + 2] = prev[idx + 1]]
    ELSE prev

\* the Move Up button of a card, disabled on the first one
onMoveUp ==
    /\ Foreground
    /\ ~crashed
    /\ edits < MaxEdits
    /\ edits' = edits + 1
    /\ \E idx \in 0..(Len(files) - 1) :
           /\ idx # 0
           /\ setFiles(moveFile(files, idx, "up"))
    /\ UNCHANGED <<isProcessing, uploads, procs, parseVars, docxVars, cropVars>>

\* the Move Down button of a card, disabled on the last one
onMoveDown ==
    /\ Foreground
    /\ ~crashed
    /\ edits < MaxEdits
    /\ edits' = edits + 1
    /\ \E idx \in 0..(Len(files) - 1) :
           /\ idx # Len(files) - 1
           /\ setFiles(moveFile(files, idx, "down"))
    /\ UNCHANGED <<isProcessing, uploads, procs, parseVars, docxVars, cropVars>>

(***************************************************************************)
(* App.tsx: processImages                                                  *)
(***************************************************************************)
\* `disabled={isProcessing}`
ProcessEnabled == ~isProcessing

\* the item whose annotation call the run r awaits
Awaited(r) == r.pending[r.k]

\* the click up to the first `await extractTextFromImage(file.file)`
processImages ==
    /\ Foreground
    /\ ~crashed
    /\ hasFiles
    /\ ProcessEnabled
    /\ Len(procs) < MaxProcs
    /\ LET pending == pendingIndices(files)
       IN /\ pending # <<>>
          /\ isProcessing' = TRUE
          /\ setFiles(SetProcessing(files, pending[1].index))
          /\ procs' = Append(procs, [pending |-> pending, k |-> 1])
    /\ UNCHANGED <<uploads, edits, parseVars, docxVars, cropVars>>

\* the click when every file is COMPLETED: true, an empty loop, false
processImagesNothing ==
    /\ Foreground
    /\ ~crashed
    /\ hasFiles
    /\ ProcessEnabled
    /\ pendingIndices(files) = <<>>
    /\ isProcessing' = FALSE
    /\ UNCHANGED <<files, crashed, uploads, procs, edits, parseVars, docxVars, cropVars>>

\* what the annotator may return for a file: text.trim(), possibly empty, for the
\* first file on the disk plain, for the others with a good and a flat region
AnnotatorTexts(file) ==
    IF file.name = FileName(1) THEN {<<>>, <<file.name>>}
    ELSE {<<file.name>> \o MarkerText(GoodMarker) \o MarkerText(FlatMarker)}

RemoveAt(seq, j) == SubSeq(seq, 1, j - 1) \o SubSeq(seq, j + 1, Len(seq))

\* after the await of run j: the updater `settled`, then the next iteration up to
\* its await, or `setIsProcessing(false)`
Continue(j, settled) ==
    LET r == procs[j]
        more == r.k < Len(r.pending)
    IN /\ setFiles(IF more THEN SetProcessing(settled, r.pending[r.k + 1].index)
                   ELSE settled)
       /\ procs' = IF more THEN [procs EXCEPT ![j].k = r.k + 1] ELSE RemoveAt(procs, j)
       /\ isProcessing' = IF more \/ crashed THEN isProcessing ELSE FALSE

\* extractTextFromImage resolves
annotationResolves ==
    /\ Foreground
    /\ \E j \in 1..Len(procs) :
           \E text \in AnnotatorTexts(Awaited(procs[j]).file) :
               Continue(j, SetCompleted(files, Awaited(procs[j]).index, text))
    /\ UNCHANGED <<uploads, edits, parseVars, docxVars, cropVars>>

\* extractTextFromImage rejects: the catch block
annotationRejects ==
    /\ Foreground
    /\ \E j \in 1..Len(procs) :
           Continue(j, SetError(files, Awaited(procs[j]).index, "error"))
    /\ UNCHANGED <<uploads, edits, parseVars, docxVars, cropVars>>

(***************************************************************************)
(* App.tsx: handleDownload                                                 *)
(***************************************************************************)
\* the Download Word button, `disabled={completedCount === 0}`, up to the call
handleDownload ==
    /\ ~crashed
    /\ hasFiles
    /\ completedCount # 0
    /\ dPc = "idle"
    /\ dFiles' = files
    /\ dPc' = "entry"
    /\ UNCHANGED <<validFiles, index, parts, i, currentRuns, docChildren, download,
                   parseVars, cropVars, files, isProcessing, uploads, procs, edits,
                   crashed>>

\* the call has returned, or thrown into the alert of the catch block
handleDownloadReturns ==
    /\ dPc \in {"done", "thrown"}
    /\ dPc' = "idle"
    /\ dFiles' = <<>>
    /\ validFiles' = <<>>
    /\ index' = 0
    /\ parts' = <<>>
    /\ i' = 0
    /\ currentRuns' = <<>>
    /\ docChildren' = <<>>
    /\ download' = <<>>
    /\ UNCHANGED <<parseVars, cropVars, appVars>>

AppStep == \/ handleFileSelect
           \/ handleRemoveFile
           \/ handleClearAll
           \/ onMoveUp
           \/ onMoveDown
           \/ processImages
           \/ processImagesNothing
           \/ annotationResolves
           \/ annotationRejects
           \/ handleDownload
           \/ handleDownloadReturns

IdleDocx ==
    /\ dPc = "idle"
    /\ dFiles = <<>>
    /\ validFiles = <<>>
    /\ index = 0
    /\ parts = <<>>
    /\ i = 0
    /\ currentRuns = <<>>
    /\ docChildren = <<>>
    /\ download = <<>>

IdleCrop ==
    /\ cPc = "none"
    /\ cArgs = NoArgs
    /\ cRect = NoData
    /\ cError = ""
    /\ cUrl = FALSE
    /\ cRevokes = 0

IdleParse ==
    /\ ptext = null
    /\ pparts = NotParsed

IdleApp ==
    /\ files = <<>>
    /\ isProcessing = FALSE
    /\ uploads = 0
    /\ procs = <<>>
    /\ edits = 0
    /\ crashed = FALSE

(***************************************************************************)
(* Specifications                                                          *)
(***************************************************************************)
\* the parser applied to every bounded text
InitParse ==
    /\ ptext \in TextsUpTo(Fragments, MaxFragments)
    /\ pparts = NotParsed
    /\ IdleDocx
    /\ IdleCrop
    /\ IdleApp

SpecParse == InitParse /\ [][ParseText]_vars

\* generateAndDownloadDocx called on every bounded file list
InitDocx ==
    /\ dFiles \in OneFileInputs \cup MarkerInputs \cup ManyFileInputs \cup ExampleInputs
    /\ dPc = "entry"
    /\ validFiles = <<>>
    /\ index = 0
    /\ parts = <<>>
    /\ i = 0
    /\ currentRuns = <<>>
    /\ docChildren = <<>>
    /\ download = <<>>
    /\ IdleCrop
    /\ IdleParse
    /\ IdleApp

NextDocx == DocxStep \/ CropStep

SpecDocx == InitDocx /\ [][NextDocx]_vars

\* the App, from its first render
Init ==
    /\ IdleApp
    /\ IdleDocx
    /\ IdleCrop
    /\ IdleParse

Next == AppStep \/ DocxStep \/ CropStep

Spec == Init /\ [][Next]_vars


(***************************************************************************)
(* Reading a finished document                                             *)
(***************************************************************************)
\* eligible for assembly: the extracted text is there and is not empty
Eligible(f) == f.extractedText # null /\ f.extractedText # <<>>

EligibleFiles(list) == SelectSeq(list, Eligible)

CountKind(doc, kind) == Cardinality({k \in 1..Len(doc) : doc[k].kind = kind})

OfKind(doc, kind) == SelectSeq(doc, LAMBDA para : para.kind = kind)

\* the runs of the body paragraphs that follow position j, up to the next paragraph
\* that is no body paragraph
RECURSIVE SectionRuns(_, _)
SectionRuns(doc, j) ==
    IF j + 1 > Len(doc) \/ doc[j + 1].kind # "body" THEN <<>>
    ELSE doc[j + 1].runs \o SectionRuns(doc, j + 1)

\* the position of the k-th header paragraph
HeaderPosition(doc, k) ==
    CHOOSE j \in 1..Len(doc) :
        /\ doc[j].kind = "header"
        /\ Cardinality({h \in 1..j : doc[h].kind = "header"}) = k

IsCropRun(r) == r.type = "image" \/ r = MissingImageRun

CropRuns(runs) == SelectSeq(runs, IsCropRun)

TextOfRuns(runs) ==
    Concat([k \in 1..Len(runs) |-> IF IsCropRun(runs[k]) THEN <<>> ELSE runs[k].text])

\* the crop tags of an annotated text, in order, and the text left without them and
\* without line breaks
TagsOf(text) == SelectSeq(SplitCrop(text), IsCropTag)

PlainOf(text) ==
    SelectSeq(Concat(SelectSeq(SplitCrop(text), LAMBDA x : ~IsCropTag(x))),
              LAMBDA c : c # NL)

\* the runs of file k's section hold its text, and one crop run per tag
SectionIsOf(doc, k, f) ==
    LET runs == SectionRuns(doc, HeaderPosition(doc, k))
    IN /\ TextOfRuns(runs) = PlainOf(f.extractedText)
       /\ Len(CropRuns(runs)) = Len(TagsOf(f.extractedText))
       /\ \A r \in 1..Len(runs) :
              runs[r].type = "image" => runs[r].data.src = f.file.name

Running == dPc \in {"entry", "file", "part", "await"}

(***************************************************************************)
(* C1: a crop that fails puts exactly one "[MISSING IMAGE]" run at the end *)
(* of the open paragraph buffer and the walk goes on with the next part;   *)
(* a running call is never stuck: it is at a loop head or branch that has  *)
(* a next step, or it awaits a crop that is pending or settled; and the    *)
(* finished document holds every eligible file's header and section, with  *)
(* one crop run per marker.                                                *)
(***************************************************************************)
C1_FailedCropStep ==
    (dPc = "await" /\ cPc = "rejected")
        => /\ currentRuns' = Append(currentRuns, MissingImageRun)
           /\ docChildren' = docChildren
           /\ dPc' = "part"
           /\ i' = i + 1
           /\ <<parts, index, validFiles, dFiles>>' = <<parts, index, validFiles, dFiles>>

C1_NeverStuck ==
    (dPc \notin {"idle", "done", "thrown"}) =>
        \/ AtEntry
        \/ AtOuterLoop
        \/ AtInnerLoop
        \/ AtAwait /\ (ErrorEvent \/ LoadEvent \/ BlobEvent \/ LoadEndEvent \/ CropSettled)

C1_Complete ==
    dPc = "done" =>
        LET eligible == EligibleFiles(dFiles)
        IN /\ Len(OfKind(download, "header")) = Len(eligible)
           /\ \A k \in 1..Len(eligible) : SectionIsOf(download, k, eligible[k])

C1_MissingImageContinues ==
    /\ [][C1_FailedCropStep]_vars
    /\ []C1_NeverStuck
    /\ []C1_Complete

\* a document of two files whose first file had a failed crop followed by text
C1_Witness ==
    /\ dPc = "done"
    /\ Len(OfKind(download, "header")) = 2
    /\ \E j \in 1..Len(download) :
           /\ j < HeaderPosition(download, 2)
           /\ download[j].kind = "body"
           /\ Len(download[j].runs) = 3
           /\ download[j].runs[2] = MissingImageRun
           /\ download[j].runs[3] = TextRun(<<"B">>, "body")

(***************************************************************************)
(* C2: for a single file with text x "\n" y [[CROP:..]] z (x, y, z single  *)
(* letters) the body is exactly two paragraphs: <<x>> and <<y, the         *)
(* marker's run, z>>; and no step of a crop finishes or opens a paragraph. *)
(***************************************************************************)
Letters == {"A", "B", "C"}

C2_Body ==
    (dPc = "done" /\ Len(dFiles) = 1) =>
        \A x, y, z \in Letters :
            LET text == dFiles[1].extractedText
                tag == Substring(text, 4, Len(text))
            IN (/\ Len(text) > 4
                /\ Substring(text, 1, 4) = <<x, NL, y>>
                /\ text[Len(text)] = z
                /\ IsCropTag(tag))
               => /\ Len(download) = 4
                  /\ download[1] = TitleParagraph
                  /\ download[2] = HeaderParagraph(dFiles[1])
                  /\ download[3] = Paragraph("body", <<TextRun(<<x>>, "body")>>)
                  /\ download[4].kind = "body"
                  /\ Len(download[4].runs) = 3
                  /\ download[4].runs[1] = TextRun(<<y>>, "body")
                  /\ IsCropRun(download[4].runs[2])
                  /\ download[4].runs[3] = TextRun(<<z>>, "body")

C2_CropKeepsParagraph ==
    (dPc = "await" \/ dPc' = "await")
        => /\ docChildren' = docChildren
           /\ \/ currentRuns' = currentRuns
              \/ /\ Len(currentRuns') = Len(currentRuns) + 1
                 /\ SubSeq(currentRuns', 1, Len(currentRuns)) = currentRuns
                 /\ IsCropRun(currentRuns'[Len(currentRuns')])

C2_MarkerInsideParagraph == []C2_Body /\ [][C2_CropKeepsParagraph]_vars

\* the worked example, assembled, with the image in the second paragraph
C2_Witness ==
    /\ dPc = "done"
    /\ Len(dFiles) = 1
    /\ dFiles[1].extractedText = ExampleText
    /\ Len(download) = 4
    /\ download[4].runs[2].type = "image"

(***************************************************************************)
(* C3: the document of n >= 1 eligible files is: one title paragraph,      *)
(* first; n header paragraphs, those of the eligible files in input order, *)
(* each followed by its file's body; n - 1 page breaks, each right before  *)
(* a header other than the first, none at the end.                         *)
(***************************************************************************)
C3_DocumentLayout ==
    dPc = "done" =>
        LET eligible == EligibleFiles(dFiles)
            n == Len(eligible)
            doc == download
        IN /\ n >= 1
           /\ doc[1] = TitleParagraph
           /\ CountKind(doc, "title") = 1
           /\ OfKind(doc, "header") = [k \in 1..n |-> HeaderParagraph(eligible[k])]
           /\ CountKind(doc, "pagebreak") = n - 1
           /\ doc[Len(doc)].kind # "pagebreak"
           /\ \A j \in 1..Len(doc) :
                  /\ doc[j].kind = "pagebreak"
                         => /\ doc[j] = PageBreakParagraph
                            /\ j < Len(doc)
                            /\ doc[j + 1].kind = "header"
                  /\ doc[j].kind = "header"
                         => j = 2 \/ doc[j - 1].kind = "pagebreak"
           /\ \A k \in 1..n : SectionIsOf(doc, k, eligible[k])

\* a document of three eligible files among which an ineligible one was skipped
C3_Witness ==
    /\ dPc = "done"
    /\ Len(dFiles) = 3
    /\ Len(EligibleFiles(dFiles)) = 2
    /\ CountKind(download, "pagebreak") = 1
    /\ CountKind(download, "body") >= 2

(***************************************************************************)
(* C4: with no eligible file the call throws before any paragraph exists   *)
(* and nothing is encoded or downloaded, then or later; with an eligible   *)
(* file it never throws.                                                   *)
(***************************************************************************)
C4_Thrown ==
    LET none == \A k \in 1..Len(dFiles) :
                    dFiles[k].extractedText = null \/ dFiles[k].extractedText = <<>>
    IN /\ (none /\ dPc \notin {"idle", "entry"})
              => /\ dPc = "thrown"
                 /\ docChildren = <<>>
                 /\ download = <<>>
                 /\ cPc = "none"
       /\ dPc = "thrown" => none

C4_NoContent == []C4_Thrown /\ [][dPc # "thrown"]_vars

\* thrown for a list that has files, none of them eligible
C4_Witness ==
    /\ dPc = "thrown"
    /\ Len(dFiles) = 2
    /\ dFiles[1].extractedText = <<>>
    /\ dFiles[2].extractedText = null


(***************************************************************************)
(* C5: at most one annotation call is in flight at every moment, and a     *)
(* step that issues a call sends the file that stands, in the list as it   *)
(* is shown after that step, above every file of the batch still waiting   *)
(* for its call.                                                           *)
(***************************************************************************)
\* this step issues an annotation call
C5_Issues == procs' # <<>> /\ (procs = <<>> \/ procs'[1] # procs[1])

C5_IssueStep ==
    /\ Len(procs') <= 1
    /\ C5_Issues =>
           LET r == procs'[1]
               sent == r.pending[r.k].file
           IN \A m \in (r.k + 1)..Len(r.pending) :
                  \A a, b \in 1..Len(files') :
                      (files'[a].file = sent /\ files'[b].file = r.pending[m].file)
                          => a < b

C5_SequentialInVisibleOrder == [][C5_IssueStep]_vars

(***************************************************************************)
(* C6: when the annotation call of a file rejects, every entry of that     *)
(* file in the list has status ERROR and an error message after the catch  *)
(* block, and the call of the next pending file of the batch is issued;    *)
(* and no file that has status ERROR in the list handed to the assembler   *)
(* has its header in the document built from it.                           *)
(***************************************************************************)
C6_RejectStep ==
    annotationRejects =>
        LET r == procs[1]
            failed == Awaited(r).file
        IN /\ \A j \in 1..Len(files') :
                  files'[j].file = failed
                      => /\ files'[j].status = "ERROR"
                         /\ files'[j].errorMessage # NoMessage
           /\ r.k < Len(r.pending)
                  => /\ procs' # <<>>
                     /\ Awaited(procs'[1]) = r.pending[r.k + 1]

C6_NoErrorFileInDocument ==
    dPc = "done" =>
        \A j \in 1..Len(dFiles) :
            dFiles[j].status = "ERROR" =>
                \A k \in 1..Len(download) : download[k] # HeaderParagraph(dFiles[j])

C6_FailedFileExcluded == [][C6_RejectStep]_vars /\ []C6_NoErrorFileInDocument

(***************************************************************************)
(* C7: once processImages has finished (no call is pending and             *)
(* isProcessing is false), no entry of the list has status PROCESSING, and *)
(* every COMPLETED entry holds an extracted text.                          *)
(***************************************************************************)
C7_EveryStartedFileSettles ==
    (procs = <<>> /\ ~isProcessing) =>
        \A j \in 1..Len(files) :
            /\ files[j].status # "PROCESSING"
            /\ files[j].status = "COMPLETED" => files[j].extractedText # null

(***************************************************************************)
(* C8: once the promise of cropImage has settled, the object URL it        *)
(* created has been revoked exactly once.                                  *)
(***************************************************************************)
C8_UrlRevokedOnce == CropSettled => (cRevokes = 1 /\ ~cUrl)

(***************************************************************************)
(* C9, as claimed: for a marker with xmax <= xmin or ymax <= ymin and any  *)
(* source image, cropImage rejects with the invalid-dimensions error.      *)
(***************************************************************************)
Degenerate(a) == a.xmax <= a.xmin \/ a.ymax <= a.ymin

C9_AlwaysInvalidDimensions ==
    (CropSettled /\ Degenerate(cArgs))
        => (cPc = "rejected" /\ cError = "Invalid crop dimensions")

(***************************************************************************)
(* C9, amended: for a marker with xmax <= xmin or ymax <= ymin, cropImage  *)
(* never resolves: it rejects with the invalid-dimensions error when the   *)
(* source image decodes and with the load error when it does not; and no   *)
(* image run of the document comes from such a marker.                     *)
(***************************************************************************)
RunsOf(doc) == Concat([k \in 1..Len(doc) |-> doc[k].runs])

C9_DegenerateNeverCropped ==
    /\ (CropSettled /\ Degenerate(cArgs))
           => /\ cPc = "rejected"
              /\ cError = IF cArgs.file.image.ok THEN "Invalid crop dimensions"
                          ELSE "Failed to load image for cropping"
    /\ LET runs == RunsOf(docChildren) \o currentRuns
       IN \A k \in 1..Len(runs) :
              runs[k].type = "image" => (runs[k].data.w > 0 /\ runs[k].data.h > 0)
    /\ (dPc = "done" /\ Len(dFiles) = 1 /\ IsCropTag(dFiles[1].extractedText))
           => LET n == TagNumbers(dFiles[1].extractedText)
              IN (n[4] <= n[2] \/ n[3] <= n[1])
                     => download[3] = Paragraph("body", <<MissingImageRun>>)

\* a decodable image and a reversed marker: rejected, and the document built
C9_Witness ==
    /\ dPc = "done"
    /\ Len(dFiles) = 1
    /\ dFiles[1].file.image.ok
    /\ dFiles[1].extractedText = MarkerText(<<200, 0, 100, 1000>>)
    /\ download[3] = Paragraph("body", <<MissingImageRun>>)

(***************************************************************************)
(* C10: the parts the walk keeps (the non-empty ones of the split)         *)
(* concatenate to the annotated text; none is empty; every one is a whole  *)
(* marker or holds no marker; a text without a marker gives the text       *)
(* itself as the only segment, and the empty text gives none.              *)
(***************************************************************************)
HasMarker(s) == \E q \in 1..Len(s) : MatchAt(s, q) # 0

C10_SplitRoundTrip ==
    pparts # NotParsed =>
        LET segs == Segments(pparts)
        IN /\ Concat(segs) = ptext
           /\ \A k \in 1..Len(segs) :
                  /\ segs[k] # <<>>
                  /\ IsCropTag(segs[k]) \/ ~HasMarker(segs[k])
                  /\ (k > 1 /\ ~IsCropTag(segs[k])) => IsCropTag(segs[k - 1])
           /\ ~HasMarker(ptext) => segs = IF ptext = <<>> THEN <<>> ELSE <<ptext>>

\* text, a marker, and a tag with two numbers only, which stays text
C10_Witness ==
    /\ pparts # NotParsed
    /\ ptext = <<"a">> \o MarkerText(GoodMarker) \o TagOpen \o <<"7", ",", "7">>
                \o TagClose
    /\ Segments(pparts) = <<<<"a">>, MarkerText(GoodMarker),
                            TagOpen \o <<"7", ",", "7">> \o TagClose>>

(***************************************************************************)
(* C11: every image run has width max(20, (xmax - xmin) / 1000 * 500) and  *)
(* height max(20, (ymax - ymin) / 1000 * 500 * 1.414) page units, for the  *)
(* numbers of the marker it was cropped for; so both are at least 20, and  *)
(* [[CROP:999,999,1000,1000]], when its crop succeeds, is shown 20 by 20.  *)
(***************************************************************************)
\* in millionths of a page unit
C11_Floor == 20 * 1000 * 1000

C11_Width(n) ==
    LET scaled == (n[4] - n[2]) * 500 * 1000
    IN IF scaled > C11_Floor THEN scaled ELSE C11_Floor

C11_Height(n) ==
    LET scaled == (n[3] - n[1]) * 707 * 1000
    IN IF scaled > C11_Floor THEN scaled ELSE C11_Floor

\* the step that pushes an image run gives it the size of the awaited marker
C11_PushStep ==
    (dPc = "await" /\ dPc' = "part" /\ currentRuns'[Len(currentRuns')].type = "image")
        => LET n == TagNumbers(parts[i + 1])
               run == currentRuns'[Len(currentRuns')]
           IN /\ run.width = C11_Width(n)
              /\ run.height = C11_Height(n)

C11_AtLeastFloor ==
    LET runs == RunsOf(docChildren) \o currentRuns
    IN \A k \in 1..Len(runs) :
           runs[k].type = "image"
               => (runs[k].width >= C11_Floor /\ runs[k].height >= C11_Floor)

C11_TinyMarker ==
    (/\ dPc = "done"
     /\ Len(dFiles) = 1
     /\ dFiles[1].extractedText = MarkerText(TinyMarker)
     /\ dFiles[1].file.image = SquareImage)
        => /\ Len(download[3].runs) = 1
           /\ \/ download[3].runs[1] = MissingImageRun
              \/ /\ download[3].runs[1].type = "image"
                 /\ download[3].runs[1].width = C11_Floor
                 /\ download[3].runs[1].height = C11_Floor

C11_DisplaySize == [][C11_PushStep]_vars /\ []C11_AtLeastFloor /\ []C11_TinyMarker

\* the tiny marker cropped out of the 1000 x 1000 image and shown 20 by 20
C11_Witness ==
    /\ dPc = "done"
    /\ Len(dFiles) = 1
    /\ dFiles[1].extractedText = MarkerText(TinyMarker)
    /\ download[3].runs[1].type = "image"
    /\ download[3].runs[1].width = 20 * UNIT
    /\ download[3].runs[1].height = 20 * UNIT

(***************************************************************************)
(* C12, as claimed: a line break that is the last character of a text      *)
(* segment does not flush the buffer: for the text x "\n" [[CROP:..]] the  *)
(* marker's run is in the same paragraph as x.                             *)
(***************************************************************************)
C12_TrailingBreakKeepsBuffer ==
    (dPc = "done" /\ Len(dFiles) = 1) =>
        \A x \in Letters :
            LET text == dFiles[1].extractedText
            IN (/\ Len(text) > 2
                /\ Substring(text, 1, 3) = <<x, NL>>
                /\ IsCropTag(Substring(text, 3, Len(text) + 1)))
               => /\ Len(download) = 3
                  /\ Len(download[3].runs) = 2
                  /\ download[3].runs[1] = TextRun(<<x>>, "body")
                  /\ IsCropRun(download[3].runs[2])

(***************************************************************************)
(* C12, amended: a step over a text segment pushes one text run per        *)
(* non-empty piece and flushes at every line break of the segment, a line  *)
(* break at its end included: the buffer then holds only the piece after   *)
(* the last line break (nothing, when the segment ends with one), the      *)
(* first paragraph added is the old buffer with the first piece, no empty  *)
(* paragraph is added; without a line break nothing is flushed. For the    *)
(* text x "\n" [[CROP:..]] the marker's run starts a paragraph of its own. *)
(***************************************************************************)
C12_TextStep ==
    (dPc = "part" /\ i < Len(parts) /\ parts[i + 1] # <<>> /\ ~IsCropTag(parts[i + 1]))
        => LET part == parts[i + 1]
               breaks == {k \in 1..Len(part) : part[k] = NL}
               first == CHOOSE k \in breaks : \A m \in breaks : k <= m
               last == CHOOSE k \in breaks : \A m \in breaks : k >= m
               head == SubSeq(part, 1, first - 1)
               tail == SubSeq(part, last + 1, Len(part))
               added == SubSeq(docChildren', Len(docChildren) + 1, Len(docChildren'))
               piece(t) == IF t = <<>> THEN <<>> ELSE <<TextRun(t, "body")>>
           IN /\ i' = i + 1
              /\ SubSeq(docChildren', 1, Len(docChildren)) = docChildren
              /\ Len(added) <= Cardinality(breaks)
              /\ \A k \in 1..Len(added) :
                     added[k].kind = "body" /\ added[k].runs # <<>>
              /\ TextOfRuns(RunsOf(added) \o currentRuns')
                     = TextOfRuns(currentRuns) \o SelectSeq(part, LAMBDA c : c # NL)
              /\ breaks = {}
                     => currentRuns' = Append(currentRuns, TextRun(part, "body"))
              /\ breaks # {}
                     => /\ currentRuns' = piece(tail)
                        /\ (currentRuns \o piece(head)) # <<>>
                               => /\ added # <<>>
                                  /\ added[1].runs = currentRuns \o piece(head)

C12_BreakThenMarker ==
    (dPc = "done" /\ Len(dFiles) = 1) =>
        \A x \in Letters :
            LET text == dFiles[1].extractedText
            IN (/\ Len(text) > 2
                /\ Substring(text, 1, 3) = <<x, NL>>
                /\ IsCropTag(Substring(text, 3, Len(text) + 1)))
               => /\ Len(download) = 4
                  /\ download[3] = Paragraph("body", <<TextRun(<<x>>, "body")>>)
                  /\ Len(download[4].runs) = 1
                  /\ IsCropRun(download[4].runs[1])

C12_EveryBreakFlushes == [][C12_TextStep]_vars /\ []C12_BreakThenMarker

\* "A\n" and a marker, assembled: the image is alone in the second paragraph
C12_Witness ==
    /\ dPc = "done"
    /\ Len(dFiles) = 1
    /\ dFiles[1].extractedText = <<"A", NL>> \o MarkerText(GoodMarker)
    /\ Len(download) = 4
    /\ download[3] = Paragraph("body", <<TextRun(<<"A">>, "body")>>)
    /\ download[4].runs[1].type = "image"

(***************************************************************************)
(* C13: a step of processImages (the click, a resolved call, a rejected    *)
(* call) keeps every entry in its place and changes no entry but those of  *)
(* the file whose call has settled and of the file sent next; and every    *)
(* entry with status COMPLETED holds a text the annotator returns for the  *)
(* file of that entry.                                                     *)
(***************************************************************************)
C13_Sent(list) == IF list = <<>> THEN {} ELSE {Awaited(list[1]).file}

C13_UpdateStep ==
    (processImages \/ annotationResolves \/ annotationRejects)
        => /\ Len(files') = Len(files)
           /\ \A j \in 1..Len(files) :
                  /\ files'[j].id = files[j].id
                  /\ files'[j].file = files[j].file
                  /\ files[j].file \notin (C13_Sent(procs) \cup C13_Sent(procs'))
                         => files'[j] = files[j]

C13_CompletedHoldsOwnText ==
    \A j \in 1..Len(files) :
        files[j].status = "COMPLETED"
            => files[j].extractedText \in AnnotatorTexts(files[j].file)

C13_UpdatesFollowIdentity == [][C13_UpdateStep]_vars /\ []C13_CompletedHoldsOwnText

(***************************************************************************)
(* C14: every entry of the list has an id and a file; ids are pairwise     *)
(* distinct; only an upload adds ids, and it keeps the entries there are;  *)
(* a move swaps two adjacent entries; a removal takes out exactly the      *)
(* entry of the card clicked and keeps the order of the others.            *)
(***************************************************************************)
C14_Ids(list) == {list[j].id : j \in 1..Len(list)}

C14_WellFormed ==
    /\ \A j \in 1..Len(files) :
           /\ files[j].id \in 1..uploads
           /\ files[j].file # NoFile
           /\ files[j].status \in ProcessingStatus
    /\ \A j, k \in 1..Len(files) : files[j].id = files[k].id => j = k

C14_Step ==
    /\ handleFileSelect
           => /\ Len(files') > Len(files)
              /\ SubSeq(files', 1, Len(files)) = files
    /\ ~handleFileSelect => C14_Ids(files') \subseteq C14_Ids(files)
    /\ (onMoveUp \/ onMoveDown)
           => \E j \in 1..(Len(files) - 1) :
                  files' = [files EXCEPT ![j] = files[j + 1], ![j + 1] = files[j]]
    /\ handleRemoveFile
           => \E j \in 1..Len(files) :
                  files' = SubSeq(files, 1, j - 1) \o SubSeq(files, j + 1, Len(files))

C14_ListWellFormed == []C14_WellFormed /\ [][C14_Step]_vars

=============================================================================
